---- MODULE Spec2Model ----
(***************************************************************************)
(* Model of the multi-agent core in src/agent_system/agent_manager.py:     *)
(* RouterAgent.route, AgentManager.process_query / execute_with_agent and  *)
(* Agent.execute with its tool-call extraction, capability gating and      *)
(* synthesis pass, over the tool registry of src/agent_system/tools.py,    *)
(* with the caller's conversation history and AgentManager.get_agent_list. *)
(*                                                                         *)
(* Spec is the manager called without history; SpecSession adds a history  *)
(* of any length, configurations with a mixed-case agent name, more        *)
(* answers of the routing model and the agent listing.                     *)
(*                                                                         *)
(* The callers in src/ollama_multi_agent_tray.py are modelled around it:   *)
(* SpecAssistant is MultiAgentAssistant.query and clear_history under a    *)
(* sequential caller; SpecApp is MultiAgentWindow with the processing      *)
(* threads of send_query (SpecAppFair adds the scheduling of the threads   *)
(* and of the event loop); SpecTray is TrayApp.toggle_window with the      *)
(* threads it starts on create_window.  There a call of the manager is     *)
(* taken in the steps at which another thread may run.                     *)
(*                                                                         *)
(* Text is modelled as a sequence of chunks (strings).  The language model *)
(* and the tool implementations are the environment: their answers are     *)
(* drawn from small sets.  A Python exception that leaves a call is the    *)
(* control state "raised" together with the exception in exc.              *)
(***************************************************************************)
EXTENDS Integers, Sequences, FiniteSets, TLC

(***************************************************************************)
(* Bounds of the model.                                                    *)
(***************************************************************************)
\* Largest number of segments (tool blocks, prose) in one primary response.
MaxBlocks == 2

\* Largest number of messages in the caller's conversation history.
MaxHistory == 15

\* send_query calls in a run of the window.
MaxQueries == 2

\* toggle_window calls that start a thread in a run of the tray.
MaxToggles == 3

(***************************************************************************)
(* Constants of the program.                                               *)
(***************************************************************************)
\* conversation_history[-10:]
HistoryWindow == 10

(***************************************************************************)
(* Small helpers over sequences.                                           *)
(***************************************************************************)
Range(s) == {s[i] : i \in DOMAIN s}

Max(S) == CHOOSE x \in S : \A y \in S : y <= x

Min(S) == CHOOSE x \in S : \A y \in S : x <= y

RECURSIVE Flatten(_)
Flatten(ss) == IF ss = <<>> THEN <<>> ELSE Head(ss) \o Flatten(Tail(ss))

\* All sequences over S of length 0..n.
RECURSIVE SeqsUpTo(_, _)
SeqsUpTo(S, n) ==
    IF n = 0 THEN {<<>>}
    ELSE LET shorter == SeqsUpTo(S, n - 1)
         IN  shorter \cup {Append(s, x) : s \in {t \in shorter : Len(t) = n - 1}, x \in S}

(***************************************************************************)
(* Chunks of model output.  Fence stands for the three-backtick sequence;  *)
(* the opening of a tool block, three backticks followed by the word tool, *)
(* is the pair Fence, Tag.                                                 *)
(***************************************************************************)
Fence == "FENCE"
Tag == "tool"
NL == "\n"
SP == " "
Prose == "Sure, I will save that."

IsSpace(c) == c \in {NL, SP}

(***************************************************************************)
(* JSON texts a tool block may hold.                                       *)
(***************************************************************************)
J_Write == "{\"tool\": \"write_file\", \"params\": {\"file_path\": \"a.txt\", \"content\": \"hi\"}}"
J_Unknown == "{\"tool\": \"send_invite\", \"params\": {}}"
J_BadParams == "{\"tool\": \"write_file\", \"params\": {\"path\": \"a.txt\"}}"
J_ListParams == "{\"tool\": \"write_file\", \"params\": [\"a.txt\"]}"
J_ListTool == "{\"tool\": [\"write_file\"]}"
J_NoTool == "{\"params\": {}}"
J_Array == "[\"tool\"]"
J_ArrayOther == "[\"write_file\"]"
J_String == "\"tool\""
J_Number == "5"
J_True == "true"
J_Null == "null"
J_Malformed == "{\"tool\": \"write_file\""

(***************************************************************************)
(* JSON values: one record shape for every value json.loads can return.    *)
(*   type        object | array | string | number | bool | null            *)
(*   keys        the keys of an object                                     *)
(*   tool_type, tool      the value under "tool" (type and text)           *)
(*   params_type, params  the value under "params" (type, keyword names)   *)
(*   elems       the elements of an array (strings)                        *)
(*   words       the words of a string                                     *)
(***************************************************************************)
JValue(type, keys, tool_type, tool, params_type, params, elems, words) ==
    [type |-> type, keys |-> keys, tool_type |-> tool_type, tool |-> tool,
     params_type |-> params_type, params |-> params, elems |-> elems, words |-> words]

JObject(keys, tool_type, tool, params_type, params) ==
    JValue("object", keys, tool_type, tool, params_type, params, <<>>, <<>>)

JArray(elems) == JValue("array", {}, "", "", "", {}, elems, <<>>)

JString(words) == JValue("string", {}, "", "", "", {}, <<>>, words)

JScalar(type) == JValue(type, {}, "", "", "", {}, <<>>, <<>>)

JSONDecodeError == [ok |-> FALSE, value |-> JScalar("null")]

Parsed(v) == [ok |-> TRUE, value |-> v]

\* json.loads on one JSON text.
JsonValueOf(s) ==
    CASE s = J_Write      -> Parsed(JObject({"tool", "params"}, "string", "write_file", "object", {"file_path", "content"}))
      [] s = J_Unknown    -> Parsed(JObject({"tool", "params"}, "string", "send_invite", "object", {}))
      [] s = J_BadParams  -> Parsed(JObject({"tool", "params"}, "string", "write_file", "object", {"path"}))
      [] s = J_ListParams -> Parsed(JObject({"tool", "params"}, "string", "write_file", "array", {}))
      [] s = J_ListTool   -> Parsed(JObject({"tool"}, "array", "write_file", "", {}))
      [] s = J_NoTool     -> Parsed(JObject({"params"}, "", "", "object", {}))
      [] s = J_Array      -> Parsed(JArray(<<"tool">>))
      [] s = J_ArrayOther -> Parsed(JArray(<<"write_file">>))
      [] s = J_String     -> Parsed(JString(<<"tool">>))
      [] s = J_Number     -> Parsed(JScalar("number"))
      [] s = J_True       -> Parsed(JScalar("bool"))
      [] s = J_Null       -> Parsed(JScalar("null"))
      [] OTHER            -> JSONDecodeError

\* str.strip(): leading and trailing whitespace removed.
RECURSIVE Strip(_)
Strip(s) ==
    IF s = <<>> THEN s
    ELSE IF IsSpace(Head(s)) THEN Strip(Tail(s))
    ELSE IF IsSpace(s[Len(s)]) THEN Strip(SubSeq(s, 1, Len(s) - 1))
    ELSE s

\* json.loads on a chunk sequence: one complete JSON text parses, anything
\* else (nothing, prose, a fence, a value followed by more text) does not.
JsonLoads(s) == IF Len(s) = 1 THEN JsonValueOf(s[1]) ELSE JSONDecodeError

(***************************************************************************)
(* re.findall(r'```tool\s*\n(.*?)\n```', text, re.DOTALL)                  *)
(***************************************************************************)
\* The literal ```tool occurs at i.
OpensAt(text, i) == i + 1 <= Len(text) /\ text[i] = Fence /\ text[i + 1] = Tag

\* Positions k of the newline matched by \n after the greedy \s*, for an
\* opening at i: every chunk between the tag and k is whitespace.
NewlineCandidates(text, i) ==
    {k \in (i + 2)..Len(text) : text[k] = NL /\ \A q \in (i + 2)..k : IsSpace(text[q])}

\* Positions m of the newline of a closing \n``` after content starting at k + 1.
Closings(text, k) ==
    {m \in (k + 1)..(Len(text) - 1) : text[m] = NL /\ text[m + 1] = Fence}

\* The match starting at i, if any: \s* is greedy, so the last newline of the
\* whitespace run that lets the rest match is taken; (.*?) is lazy, so the
\* first closing after it ends the group.
MatchAt(text, i) ==
    LET ks == {k \in NewlineCandidates(text, i) : Closings(text, k) # {}}
    IN  IF ~OpensAt(text, i) \/ ks = {}
        THEN [found |-> FALSE, group |-> <<>>, end |-> i]
        ELSE LET k == Max(ks)
                 m == Min(Closings(text, k))
             IN  [found |-> TRUE, group |-> SubSeq(text, k + 1, m - 1), end |-> m + 1]

\* Matches are found left to right and do not overlap.
RECURSIVE FindAllFrom(_, _)
FindAllFrom(text, i) ==
    IF i > Len(text) THEN <<>>
    ELSE LET mt == MatchAt(text, i)
         IN  IF mt.found THEN <<mt.group>> \o FindAllFrom(text, mt.end + 1)
             ELSE FindAllFrom(text, i + 1)

FindAll(text) == FindAllFrom(text, 1)

(***************************************************************************)
(* Agent._extract_tool_calls                                               *)
(***************************************************************************)
\* Python's  "tool" in tool_data : a key of a dict, an element of a list, a
\* substring of a str; a TypeError for a number, a boolean or None.
InRaises(v) == v.type \in {"number", "bool", "null"}

HasToolKey(v) ==
    CASE v.type = "object" -> "tool" \in v.keys
      [] v.type = "array"  -> "tool" \in Range(v.elems)
      [] v.type = "string" -> "tool" \in Range(v.words)
      [] OTHER             -> FALSE

NoExc == [type |-> "", at |-> ""]

Exc(type, at) == [type |-> type, at |-> at]

\* The loop over the matches: a block that does not parse is skipped, a value
\* holding "tool" is appended, and a TypeError of the membership test leaves
\* the function (only JSONDecodeError is caught).
RECURSIVE ExtractLoop(_, _)
ExtractLoop(matches, acc) ==
    IF matches = <<>> THEN [exc |-> NoExc, calls |-> acc]
    ELSE LET loaded == JsonLoads(Strip(Head(matches)))
         IN  IF ~loaded.ok THEN ExtractLoop(Tail(matches), acc)
             ELSE IF InRaises(loaded.value)
                  THEN [exc |-> Exc("TypeError", "_extract_tool_calls"), calls |-> <<>>]
             ELSE IF HasToolKey(loaded.value)
                  THEN ExtractLoop(Tail(matches), Append(acc, loaded.value))
             ELSE ExtractLoop(Tail(matches), acc)

extract_tool_calls(text) == ExtractLoop(FindAll(text), <<>>)

(***************************************************************************)
(* Configuration (the structure MultiAgentAssistant._load_config returns)  *)
(* and the tool registry.                                                  *)
(***************************************************************************)
\* Agent names a configuration may define.
AgentUniverse == {"general", "file_manager", "calendar"}

\* An agent name no configuration defines.
UnknownAgent == "weather"

\* config["agents"][name].get("tools", []): general lists no tools, and
\* calendar lists send_invite, which the registry does not hold.
ConfiguredTools(name) ==
    CASE name = "file_manager" -> <<"read_file", "write_file", "list_directory", "create_directory">>
      [] name = "calendar"     -> <<"list_events", "send_invite">>
      [] OTHER                 -> <<>>

\* config["agents"][name]["description"]
Description(name) == "Handles " \o name \o " requests"

\* config.get("model", "ministral:3b")
AgentModel(name) == "ministral:3b"

\* AgentManager._initialize_agents: one Agent per configured name.
InitializeAgents(names) ==
    [n \in names |-> [model |-> AgentModel(n),
                      description |-> Description(n),
                      tool_names |-> ConfiguredTools(n)]]

\* ToolRegistry.tools
RegistryTools ==
    {"read_file", "write_file", "list_directory", "create_directory", "delete_file",
     "analyze_document", "extract_text", "web_search", "fetch_url",
     "create_event", "list_events", "delete_event", "execute_code"}

\* Parameters of the tool implementations the model invokes.
ToolRequired(tool) ==
    CASE tool = "write_file" -> {"file_path", "content"}
      [] tool = "read_file"  -> {"file_path"}
      [] OTHER               -> {}

ToolOptional(tool) ==
    CASE tool = "write_file"  -> {"append"}
      [] tool = "list_events" -> {"max_results", "time_min"}
      [] OTHER                -> {}

(***************************************************************************)
(* Inputs: what the models answer.                                         *)
(***************************************************************************)
\* A fenced tool block holding the JSON text a.
Block(a) == <<Fence, Tag, NL, a, NL, Fence>>

BlockContents ==
    {J_Write, J_Unknown, J_BadParams, J_ListParams, J_ListTool, J_NoTool,
     J_Array, J_ArrayOther, J_String, J_Number, J_True, J_Null, J_Malformed}

Segments ==
    {Block(a) : a \in BlockContents}
    \cup {<<Prose>>,
          <<Fence, Tag, SP, NL, SP, J_Write, NL, Fence>>,    \* spaces after the tag
          <<Fence, Tag, SP, J_Write, NL, Fence>>,            \* JSON on the tag's line
          <<Fence, Tag, NL, J_Write, Fence, NL>>}            \* closing fence on the JSON's line

\* The primary responses of the model: up to MaxBlocks segments.
PrimaryTexts == {Flatten(ss) : ss \in SeqsUpTo(Segments, MaxBlocks)}

SynthesisText == <<"The file a.txt was written.">>

\* Raw answers of the routing model.
RouterAnswers ==
    {<<"general">>, <<"Calendar", ".">>, <<"\"", "file_manager", "\"">>,
     <<SP, "FILE_MANAGER", NL>>, <<"I'm not sure">>, <<"weather">>}

\* More raw answers: quote and period characters inside a name, whitespace
\* inside quotes, several words, a name in another letter case.
RouterTexts ==
    RouterAnswers
    \cup {<<"cal", ".", "endar">>, <<"file_", "'", "manager">>,
          <<"'", "CALENDAR", "'", ".", NL>>, <<"\"", SP, "calendar", "\"">>,
          <<"calendar", SP, "general">>, <<"Research">>, <<"research", ".">>}

\* An agent name a configuration file may use that is not in lower case.
MixedCaseAgent == "Research"

(***************************************************************************)
(* RouterAgent.route: post-processing of the raw answer.                   *)
(***************************************************************************)
\* Variant: the answer is not lower-cased.
LowerLeftOut(c) == c

\* str.lower() on one chunk.
Lower(c) ==
    CASE c = "Calendar"     -> "calendar"
      [] c = "CALENDAR"     -> "calendar"
      [] c = "FILE_MANAGER" -> "file_manager"
      [] c = "Research"     -> "research"
      [] c = "I'm not sure" -> "i'm not sure"
      [] OTHER              -> c

\* .replace('"', '').replace("'", "").replace(".", "") on one chunk.
RemoveQuotesAndPeriods(c) ==
    CASE c \in {"\"", "'", "."} -> ""
      [] c = "i'm not sure"     -> "im not sure"
      [] OTHER                  -> c

RECURSIVE Join(_)
Join(s) == IF s = <<>> THEN "" ELSE Head(s) \o Join(Tail(s))

\* response['message']['content'].strip().lower() and the clean-up.
CleanAnswer(raw) ==
    LET stripped == Strip(raw)
    IN  Join([i \in DOMAIN stripped |-> RemoveQuotesAndPeriods(Lower(stripped[i]))])

\* The name route returns when no known agent was named or the call failed.
FallbackAgent == "general"

\* Variant: the cleaned answer is returned without validation.
RouteDecisionUnvalidated(raw, agent_names) == CleanAnswer(raw)

\* The validation of the cleaned answer against the router's agent names.
RouteDecision(raw, agent_names) ==
    LET selected_agent == CleanAnswer(raw)
    IN  IF selected_agent \in agent_names THEN selected_agent ELSE FallbackAgent

(***************************************************************************)
(* Agent._execute_tool, up to the invocation of the tool's callable.       *)
(***************************************************************************)
\* tool_call.get("tool") on a value without get (a list, a str).
HasGet(call) == call.type = "object"

\* ToolRegistry.has_tool hashes the name: a list or a dict is unhashable.
Hashable(call) == call.tool_type \notin {"array", "object"}

\* ToolRegistry.has_tool
has_tool(call) == call.tool_type = "string" /\ call.tool \in RegistryTools

\* Variant: the allow-list test is left out.
AllowedAlways(call, tool_names) == TRUE

\* tool_name in self.tool_names
Allowed(call, tool_names) == call.tool_type = "string" /\ call.tool \in Range(tool_names)

\* tool_func(**params) binds: params is a mapping whose keys fit the signature.
ParamsFit(call) ==
    LET given == IF "params" \in call.keys THEN call.params ELSE {}
        isMapping == "params" \notin call.keys \/ call.params_type = "object"
    IN  /\ isMapping
        /\ ToolRequired(call.tool) \subseteq given
        /\ given \subseteq (ToolRequired(call.tool) \cup ToolOptional(call.tool))

ToolResult(success, error) == [success |-> success, error |-> error]

NotFound(call) == ToolResult(FALSE, "Tool " \o call.tool \o " not found")

NotAvailable(call) == ToolResult(FALSE, "Tool " \o call.tool \o " not available to this agent")

(***************************************************************************)
(* The conversation history of the caller and the input of the model       *)
(* invocations of Agent.execute.                                           *)
(***************************************************************************)
\* The query (the prompt argument).
Query == "Please save hi to a.txt"

\* A history of n messages: the caller keeps role, content and a timestamp.
Hist(n) ==
    [i \in 1..n |-> [role |-> IF i % 2 = 1 THEN "user" ELSE "assistant",
                     content |-> "message " \o ToString(i),
                     timestamp |-> i]]

\* {"role": ..., "content": ...}
Message(role, content) == [role |-> role, content |-> content]

\* Agent._build_system_prompt
build_system_prompt(agent) ==
    "You are a specialized AI assistant for: " \o agent.description
    \o (IF agent.tool_names # <<>>
        THEN " You have access to the following tools:"
             \o Join([i \in DOMAIN agent.tool_names |-> " - " \o agent.tool_names[i]])
        ELSE "")
    \o " Be helpful, concise, and accurate in your responses."

\* Variant: the first messages of the history are taken.
WindowFirst(history) == SubSeq(history, 1, Min({Len(history), HistoryWindow}))

\* conversation_history[-10:]
Window(history) ==
    IF Len(history) <= HistoryWindow THEN history
    ELSE SubSeq(history, Len(history) - HistoryWindow + 1, Len(history))

\* The messages of the primary invocation: the system prompt, the window of
\* the history (a new dict of role and content per message), the prompt.
PrimaryMessages(agent, history, prompt) ==
    LET window == Window(history)
    IN  <<Message("system", build_system_prompt(agent))>>
        \o [i \in DOMAIN window |-> Message(window[i].role, window[i].content)]
        \o <<Message("user", prompt)>>

\* Agent._build_synthesis_prompt: one entry per result, numbered from 1.
build_synthesis_prompt(original_prompt, results) ==
    "Based on the tool results below, provide a natural language response to the user's request."
    \o " User request: " \o original_prompt
    \o " Tool results:"
    \o Join([i \in DOMAIN results |->
                " Tool " \o ToString(i) \o ": " \o ToString(results[i])])
    \o " Provide a clear, helpful response based on these results:"

\* Variant: the synthesis pass gets the two new turns only.
SynthesisMessagesAlone(messages, text, prompt, results) ==
    <<Message("assistant", Join(text)),
      Message("user", build_synthesis_prompt(prompt, results))>>

\* synthesis_messages = messages + [assistant turn, synthesis instruction]
SynthesisMessages(messages, text, prompt, results) ==
    messages \o <<Message("assistant", Join(text)),
                  Message("user", build_synthesis_prompt(prompt, results))>>

\* The list objects of one call, by identity: the caller's history, the
\* messages list of execute and the list built for the synthesis pass.
ListIds == {"history", "messages", "synthesis_messages"}

\* Variant: execute fills the list it was given.
MessagesListIsHistory == "history"

\* messages = []: the list execute fills is a new one.
MessagesList == "messages"

\* One model invocation, as logged: its kind, the agent (or the router)
\* whose model is invoked, and whether it returned or raised.
ModelCall(kind, agent, ok) == [kind |-> kind, agent |-> agent, ok |-> ok]

Router == "router"

(***************************************************************************)
(* AgentManager.get_agent_list                                             *)
(***************************************************************************)
\* Variant: agents without tools are left out.
get_agent_list_with_tools(ags) ==
    [n \in {m \in DOMAIN ags : ags[m].tool_names # <<>>} |->
        [description |-> ags[n].description, model |-> ags[n].model,
         tools |-> ags[n].tool_names]]

get_agent_list(ags) ==
    [n \in DOMAIN ags |->
        [description |-> ags[n].description, model |-> ags[n].model,
         tools |-> ags[n].tool_names]]

(***************************************************************************)
(* State.                                                                  *)
(***************************************************************************)
VARIABLES
    agents,             \* AgentManager.agents: name -> Agent (its tool_names)
    pc,                 \* where the current call stands
    op,                 \* the operation called: process_query | execute_with_agent
    agent_name,         \* execute_with_agent's agent_name argument
    router_raw,         \* route: the routing model's raw answer
    assistant_message,  \* execute: the primary response
    tool_calls,         \* execute: the extracted calls
    idx,                \* execute: position of the loop in tool_calls
    tool_results,       \* execute: results collected so far
    tools_used,         \* execute: names recorded so far
    result,             \* the value returned to the caller
    exc,                \* the exception raised to the caller
    model_calls,        \* log: the model invocations issued, in order
    invoked,            \* log: the tool callables invoked, in order
    events,             \* log: calls of and returns from _execute_tool
    synth_results,      \* log: the tool results given to the synthesis prompt
    lists,              \* the list objects: the caller's history, messages, ...
    listings,           \* the last two mappings get_agent_list returned
    workers,            \* the processing threads send_query started
    widgets,            \* MultiAgentWindow: the Send button and the status line
    tk,                 \* MultiAgentWindow.window, is_visible, the Tk roots built
    creators,           \* the threads toggle_window started on create_window
    route_calls         \* log: the last two calls of RouterAgent.route

\* The state of the tray application around the manager.
app == <<workers, widgets, tk, creators, route_calls>>

vars == <<agents, pc, op, agent_name, router_raw, assistant_message, tool_calls, idx,
          tool_results, tools_used, result, exc, model_calls, invoked, events,
          synth_results, lists, listings, app>>

NoResult == [response |-> <<>>, agent_used |-> "", tools_used |-> <<>>]

\* The agent sets of the configurations: at least one agent is defined.
AgentSets == (SUBSET AgentUniverse) \ {{}}

\* The agent sets of configuration files that also use a mixed-case name.
SessionAgentSets == (SUBSET (AgentUniverse \cup {MixedCaseAgent})) \ {{}}

NoLists == [id \in ListIds |-> <<>>]

(***************************************************************************)
(* The tray application: the threads and the widgets of MultiAgentWindow.  *)
(***************************************************************************)
\* The processing threads of a run, in the order send_query starts them.
ThreadIds == 1..MaxQueries

\* The threads toggle_window may start on create_window, in that order.
CreatorIds == 1..MaxToggles

\* A call that was not started: pc is where it stands, force the forced
\* agent ("" for a call of query), history the list object the manager was
\* handed ("live" while that is still assistant.conversation_history, else
\* old holds it), input the messages of its primary invocation; len0 is the
\* length of the history when the call began, fresh and overlap record the
\* state at the time of send_query.
NoWorker ==
    [pc |-> "idle", force |-> "", use_history |-> TRUE, query |-> "", agent |-> "",
     history |-> "none",
     old |-> <<>>, input |-> <<>>, used |-> <<>>, invoked |-> <<>>,
     result |-> NoResult, exc |-> NoExc, len0 |-> 0, fresh |-> FALSE, overlap |-> FALSE]

\* MultiAgentWindow.__init__: no window yet, nothing visible.
NoWindow ==
    /\ workers = [t \in ThreadIds |-> NoWorker]
    /\ widgets = [send_button |-> "none", status |-> ""]
    /\ tk = [window |-> FALSE, is_visible |-> FALSE, roots |-> 0]
    /\ creators = [c \in CreatorIds |-> "idle"]
    /\ route_calls = <<>>

\* The window after one create_window: the widgets exist, mainloop runs.
WindowBuilt ==
    /\ workers = [t \in ThreadIds |-> NoWorker]
    /\ widgets = [send_button |-> "normal", status |-> "Ready"]
    /\ tk = [window |-> TRUE, is_visible |-> TRUE, roots |-> 1]
    /\ creators = [c \in CreatorIds |-> IF c = 1 THEN "mainloop" ELSE "idle"]
    /\ route_calls = <<>>

\* The manager after construction, for a configuration among agentSets and
\* a caller whose history has one of the lengths.
InitManager(agentSets, lengths) ==
    /\ agents \in {InitializeAgents(names) : names \in agentSets}
    /\ lists \in {[NoLists EXCEPT !["history"] = Hist(n)] : n \in lengths}
    /\ listings = <<>>
    /\ pc = "idle"
    /\ op = ""
    /\ agent_name = ""
    /\ router_raw = <<>>
    /\ assistant_message = <<>>
    /\ tool_calls = <<>>
    /\ idx = 0
    /\ tool_results = <<>>
    /\ tools_used = <<>>
    /\ result = NoResult
    /\ exc = NoExc
    /\ model_calls = <<>>
    /\ invoked = <<>>
    /\ events = <<>>
    /\ synth_results = <<>>

\* The state after construction: the manager, and no window yet.
InitWith(agentSets, lengths) == InitManager(agentSets, lengths) /\ NoWindow

\* A caller that passes no history (use_history off).
Init == InitWith(AgentSets, {0})

\* A caller with a history of any length up to MaxHistory.
InitSession == InitWith(SessionAgentSets, 0..MaxHistory)

execLocals == <<assistant_message, tool_calls, idx, tool_results, tools_used>>
logs == <<model_calls, invoked, events, synth_results>>

(***************************************************************************)
(* AgentManager.process_query and RouterAgent.route                        *)
(***************************************************************************)
\* process_query is called: route builds its prompt and invokes the model.
ProcessQuery ==
    /\ pc = "idle"
    /\ op' = "process_query"
    /\ pc' = "route"
    /\ UNCHANGED <<agents, agent_name, router_raw, execLocals, result, exc, logs, lists,
                   listings, app>>

\* The routing model answers raw; route returns the validated name.
Route(raw) ==
    /\ pc = "route"
    /\ model_calls' = Append(model_calls, ModelCall("route", Router, TRUE))
    /\ router_raw' = raw
    /\ agent_name' = RouteDecision(raw, DOMAIN agents)
    /\ pc' = "lookup"
    /\ UNCHANGED <<agents, op, execLocals, result, exc, invoked, events, synth_results,
                   lists, listings, app>>

\* The routing invocation raises: route catches it and returns the fallback.
RouteFails ==
    /\ pc = "route"
    /\ model_calls' = Append(model_calls, ModelCall("route", Router, FALSE))
    /\ agent_name' = FallbackAgent
    /\ pc' = "lookup"
    /\ UNCHANGED <<agents, op, router_raw, execLocals, result, exc, invoked, events,
                   synth_results, lists, listings, app>>

(***************************************************************************)
(* AgentManager.execute_with_agent                                         *)
(***************************************************************************)
\* execute_with_agent is called by a caller that forces an agent.
ExecuteWithAgent(name) ==
    /\ pc = "idle"
    /\ op' = "execute_with_agent"
    /\ agent_name' = name
    /\ pc' = "lookup"
    /\ UNCHANGED <<agents, router_raw, execLocals, result, exc, logs, lists, listings, app>>

\* Variant: the look-up is not guarded.
AgentMissingUnchecked(name, known) == FALSE

\* agent_name not in self.agents
AgentMissing(name, known) == name \notin known

AgentNotFound(name) ==
    [response |-> <<"Error: Agent '", name, "' not found">>,
     agent_used |-> "error",
     tools_used |-> <<>>]

\* The look-up: an error result for an absent agent, else Agent.execute
\* builds its messages and invokes the model.
Lookup ==
    /\ pc = "lookup"
    /\ IF AgentMissing(agent_name, DOMAIN agents)
       THEN /\ result' = AgentNotFound(agent_name)
            /\ pc' = "done"
            /\ UNCHANGED <<exc, lists>>
       ELSE IF agent_name \in DOMAIN agents
       THEN /\ lists' = [lists EXCEPT ![MessagesList] =
                             PrimaryMessages(agents[agent_name], lists["history"], Query)]
            /\ pc' = "primary"
            /\ UNCHANGED <<result, exc>>
       ELSE /\ pc' = "raised"                       \* self.agents[agent_name]
            /\ exc' = Exc("KeyError", "execute_with_agent")
            /\ UNCHANGED <<result, lists>>
    /\ router_raw' = <<>>
    /\ UNCHANGED <<agents, op, agent_name, execLocals, logs, listings, app>>

(***************************************************************************)
(* Agent.execute                                                           *)
(***************************************************************************)
\* Variant: the result names the fallback agent.
AgentResultFallback(response, used) ==
    [response |-> response, agent_used |-> FallbackAgent, tools_used |-> used]

\* The result execute_with_agent builds from what Agent.execute returns.
AgentResult(response, used) ==
    [response |-> response, agent_used |-> agent_name, tools_used |-> used]

\* The primary invocation answers text; the tool calls are extracted.
Primary(text) ==
    /\ pc = "primary"
    /\ model_calls' = Append(model_calls, ModelCall("primary", agent_name, TRUE))
    /\ assistant_message' = text
    /\ LET extracted == extract_tool_calls(text)
       IN  IF extracted.exc # NoExc
           THEN /\ pc' = "raised"
                /\ exc' = extracted.exc
                /\ UNCHANGED <<tool_calls, idx, result>>
           ELSE /\ tool_calls' = extracted.calls
                /\ exc' = exc
                /\ IF extracted.calls = <<>>
                   THEN /\ result' = AgentResult(text, tools_used)
                        /\ pc' = "done"
                        /\ idx' = idx
                   ELSE /\ pc' = "tools"
                        /\ idx' = 1
                        /\ result' = result
    /\ UNCHANGED <<agents, op, agent_name, router_raw, tool_results, tools_used,
                   invoked, events, synth_results, lists, listings, app>>

\* The primary invocation raises: nothing in execute catches it.
PrimaryFails ==
    /\ pc = "primary"
    /\ model_calls' = Append(model_calls, ModelCall("primary", agent_name, FALSE))
    /\ pc' = "raised"
    /\ exc' = Exc("ResponseError", "primary")
    /\ UNCHANGED <<agents, op, agent_name, router_raw, execLocals, result, invoked,
                   events, synth_results, lists, listings, app>>

\* Variant: the calls are taken last to first.
LoopIndexReversed(i, n) == n + 1 - i

\* for tool_call in tool_calls: the call handled in the i-th iteration of n.
LoopIndex(i, n) == i

\* Variant: only the calls that succeeded are recorded.
RecordSuccessfulOnly(used, call, res) == IF res.success THEN Append(used, call.tool) ELSE used

\* tools_used.append(tool_call["tool"])
RecordToolUsed(used, call, res) == Append(used, call.tool)

\* Variant: a call that failed is made again.
RetryFailed(i, res) == IF res.success THEN i + 1 ELSE i

\* The loop goes on to the next call, whatever the result.
NextIteration(i, res) == i + 1

\* One iteration ends: the name and the result are recorded.
Recorded(call, res) ==
    /\ tools_used' = RecordToolUsed(tools_used, call, res)
    /\ tool_results' = Append(tool_results, res)
    /\ idx' = NextIteration(idx, res)
    /\ pc' = "tools"

\* One iteration of the loop, up to the return of _execute_tool or to the
\* invocation of the tool's callable.
ExecuteTool ==
    /\ pc = "tools"
    /\ idx <= Len(tool_calls)
    /\ LET i == LoopIndex(idx, Len(tool_calls))
           call == tool_calls[i]
           called == Append(events, [kind |-> "call", i |-> i])
           returned == Append(called, [kind |-> "return", i |-> i])
           tool_names == agents[agent_name].tool_names
       IN  IF ~HasGet(call)
           THEN /\ pc' = "raised"
                /\ exc' = Exc("AttributeError", "_execute_tool")
                /\ events' = called
                /\ UNCHANGED <<idx, tool_results, tools_used, invoked>>
           ELSE IF ~Hashable(call)
           THEN /\ pc' = "raised"
                /\ exc' = Exc("TypeError", "has_tool")
                /\ events' = called
                /\ UNCHANGED <<idx, tool_results, tools_used, invoked>>
           ELSE IF ~has_tool(call)
           THEN /\ Recorded(call, NotFound(call))
                /\ events' = returned
                /\ UNCHANGED <<exc, invoked>>
           ELSE IF ~Allowed(call, tool_names)
           THEN /\ Recorded(call, NotAvailable(call))
                /\ events' = returned
                /\ UNCHANGED <<exc, invoked>>
           ELSE IF ~ParamsFit(call)
           THEN /\ Recorded(call, ToolResult(FALSE, "TypeError"))
                /\ events' = returned
                /\ UNCHANGED <<exc, invoked>>
           ELSE /\ invoked' = Append(invoked, [i |-> i, tool |-> call.tool, params |-> call.params])
                /\ events' = called
                /\ pc' = "tool_running"
                /\ UNCHANGED <<idx, tool_results, tools_used, exc>>
    /\ UNCHANGED <<agents, op, agent_name, router_raw, assistant_message, tool_calls,
                   result, model_calls, synth_results, lists, listings, app>>

\* The tool's callable returns its result, a success or a failure.
ToolReturns(success) ==
    /\ pc = "tool_running"
    /\ LET i == LoopIndex(idx, Len(tool_calls))
       IN  /\ Recorded(tool_calls[i],
                       ToolResult(success, IF success THEN "" ELSE "Permission denied"))
           /\ events' = Append(events, [kind |-> "return", i |-> i])
    /\ UNCHANGED <<agents, op, agent_name, router_raw, assistant_message, tool_calls,
                   result, exc, model_calls, invoked, synth_results, lists, listings, app>>

\* if tool_results: after the loop
NeedsSynthesis(results) == results # <<>>

\* The loop is over and the synthesis invocation answers text.
Synthesis(text) ==
    /\ pc = "tools"
    /\ idx > Len(tool_calls)
    /\ IF NeedsSynthesis(tool_results)
       THEN /\ model_calls' = Append(model_calls, ModelCall("synthesis", agent_name, TRUE))
            /\ synth_results' = tool_results
            /\ lists' = [lists EXCEPT !["synthesis_messages"] =
                             SynthesisMessages(lists[MessagesList], assistant_message,
                                               Query, tool_results)]
            /\ result' = AgentResult(text, tools_used)
       ELSE /\ result' = AgentResult(assistant_message, tools_used)
            /\ UNCHANGED <<model_calls, synth_results, lists>>
    /\ pc' = "done"
    /\ UNCHANGED <<agents, op, agent_name, router_raw, execLocals, exc, invoked, events,
                   listings, app>>

\* The loop is over and the synthesis invocation raises.
SynthesisFails ==
    /\ pc = "tools"
    /\ idx > Len(tool_calls)
    /\ NeedsSynthesis(tool_results)
    /\ model_calls' = Append(model_calls, ModelCall("synthesis", agent_name, FALSE))
    /\ synth_results' = tool_results
    /\ lists' = [lists EXCEPT !["synthesis_messages"] =
                     SynthesisMessages(lists[MessagesList], assistant_message,
                                       Query, tool_results)]
    /\ pc' = "raised"
    /\ exc' = Exc("ResponseError", "synthesis")
    /\ UNCHANGED <<agents, op, agent_name, router_raw, execLocals, result, invoked, events,
                   listings, app>>

\* The caller has its result or its exception; the next call starts afresh.
Return ==
    /\ pc \in {"done", "raised"}
    /\ pc' = "idle"
    /\ op' = ""
    /\ agent_name' = ""
    /\ router_raw' = <<>>
    /\ assistant_message' = <<>>
    /\ tool_calls' = <<>>
    /\ idx' = 0
    /\ tool_results' = <<>>
    /\ tools_used' = <<>>
    /\ result' = NoResult
    /\ exc' = NoExc
    /\ model_calls' = <<>>
    /\ invoked' = <<>>
    /\ events' = <<>>
    /\ synth_results' = <<>>
    /\ lists' = [NoLists EXCEPT !["history"] = lists["history"]]
    /\ UNCHANGED <<agents, listings, app>>

\* get_agent_list is called between two calls of the manager.
GetAgentList ==
    /\ pc = "idle"
    /\ listings' = IF Len(listings) < 2
                   THEN Append(listings, get_agent_list(agents))
                   ELSE <<listings[2], get_agent_list(agents)>>
    /\ UNCHANGED <<agents, pc, op, agent_name, router_raw, execLocals, result, exc, logs,
                   lists, app>>

Next ==
    \/ ProcessQuery
    \/ \E raw \in RouterAnswers : Route(raw)
    \/ RouteFails
    \/ \E name \in AgentUniverse \cup {UnknownAgent} : ExecuteWithAgent(name)
    \/ Lookup
    \/ \E text \in PrimaryTexts : Primary(text)
    \/ PrimaryFails
    \/ ExecuteTool
    \/ \E success \in BOOLEAN : ToolReturns(success)
    \/ Synthesis(SynthesisText)
    \/ SynthesisFails
    \/ Return

Spec == Init /\ [][Next]_vars

(***************************************************************************)
(* The manager in a session: configurations with a mixed-case agent name,  *)
(* a caller with a history, more answers of the routing model, and the     *)
(* agent listing between the calls.                                        *)
(***************************************************************************)
\* The primary responses of the session: prose, one call, two calls.
SessionTexts ==
    {<<Prose>>, Block(J_Write), Block(J_BadParams) \o Block(J_Unknown)}

NextSession ==
    \/ ProcessQuery
    \/ \E raw \in RouterTexts : Route(raw)
    \/ RouteFails
    \/ \E name \in AgentUniverse \cup {MixedCaseAgent, UnknownAgent} : ExecuteWithAgent(name)
    \/ Lookup
    \/ \E text \in SessionTexts : Primary(text)
    \/ PrimaryFails
    \/ ExecuteTool
    \/ \E success \in BOOLEAN : ToolReturns(success)
    \/ Synthesis(SynthesisText)
    \/ SynthesisFails
    \/ Return
    \/ GetAgentList

SpecSession == InitSession /\ [][NextSession]_vars

(***************************************************************************)
(* The window: MultiAgentWindow.send_query, the processing thread it       *)
(* starts, MultiAgentAssistant.query and clear_history, _handle_response.  *)
(* A thread runs the manager in the steps at which another thread may run: *)
(* the start, each model invocation, the end.                              *)
(***************************************************************************)
\* What the user types into the input field.
QueryTexts == {Query}

\* The configurations of the window's runs.
AppAgentSets == {{"general", "file_manager"}, {"file_manager"}}

\* What the routing model answers to the window's queries.
AppRouterAnswers == {<<"file_manager">>, <<"I'm not sure">>}

\* The primary responses to the window's queries: prose, one call of an
\* allowed tool, that call followed by a call whose name is a list.
AppTexts == {<<Prose>>, Block(J_Write), Block(J_Write) \o Block(J_ListTool)}

\* The values of the agent selector: auto ("") or a configured agent.
ForceChoices == {""} \cup DOMAIN agents

\* The dict query appends for the user's turn.
UserMessage(prompt, history) ==
    [role |-> "user", content |-> prompt, timestamp |-> Len(history) + 1]

\* The dict query appends for the answer.
AssistantMessage(res, history) ==
    [role |-> "assistant", content |-> Join(res.response), agent |-> res.agent_used,
     tools_used |-> res.tools_used, timestamp |-> Len(history) + 1]

\* The dict query returns from its except clause.
ErrorResult(e) ==
    [response |-> <<"Error: ", e.type>>, agent_used |-> "error", tools_used |-> <<>>,
     error |-> e.type]

\* Variant: query lets the exception through.
QueryCatchesNone(e) == FALSE

\* except Exception: every exception the manager raises is an Exception.
QueryCatches(e) == e.type \in {"ResponseError", "TypeError", "AttributeError", "KeyError"}

\* Variant: route adds the window of the history to its messages.
RouterMessagesWithHistory(descriptions, query, history) ==
    <<[role |-> "system", content |-> descriptions]>>
    \o [i \in DOMAIN Window(history) |->
           [role |-> Window(history)[i].role, content |-> Window(history)[i].content]]
    \o <<[role |-> "user",
          content |-> "Which agent should handle this request? Request: " \o query]>>

\* The messages route sends: the agents and their descriptions, the query.
RouterMessages(descriptions, query, history) ==
    <<[role |-> "system", content |-> descriptions],
      [role |-> "user",
       content |-> "Which agent should handle this request? Request: " \o query]>>

\* self.agent_descriptions of the router.
AgentDescriptions == [n \in DOMAIN agents |-> agents[n].description]

\* One call of route, as logged.
RouteCall(query, raw, ok, history) ==
    [query |-> query, raw |-> raw, ok |-> ok, history |-> Len(history),
     messages |-> RouterMessages(AgentDescriptions, query, history),
     decision |-> IF ok THEN RouteDecision(raw, DOMAIN agents) ELSE FallbackAgent]

NoLoop == [exc |-> NoExc, results |-> <<>>, used |-> <<>>, invoked |-> <<>>]

\* The loop of execute over the extracted calls, with _execute_tool: the
\* results, the names recorded, the names of the tools invoked, and the
\* exception that ended the loop, if any.
RECURSIVE ToolLoop(_, _, _, _)
ToolLoop(calls, tool_names, success, acc) ==
    IF calls = <<>> THEN acc
    ELSE LET call == Head(calls)
             runs == has_tool(call) /\ Allowed(call, tool_names) /\ ParamsFit(call)
             res  == IF ~has_tool(call) THEN NotFound(call)
                     ELSE IF ~Allowed(call, tool_names) THEN NotAvailable(call)
                     ELSE IF ~ParamsFit(call) THEN ToolResult(FALSE, "TypeError")
                     ELSE ToolResult(success, IF success THEN "" ELSE "Permission denied")
         IN  IF ~HasGet(call)
             THEN [acc EXCEPT !.exc = Exc("AttributeError", "_execute_tool")]
             ELSE IF ~Hashable(call)
             THEN [acc EXCEPT !.exc = Exc("TypeError", "has_tool")]
             ELSE ToolLoop(Tail(calls), tool_names, success,
                           [exc |-> NoExc,
                            results |-> Append(acc.results, res),
                            used |-> RecordToolUsed(acc.used, call, res),
                            invoked |-> IF runs THEN Append(acc.invoked, call.tool)
                                        ELSE acc.invoked])

\* The list object a thread's manager call was handed.
HistoryOf(t) ==
    IF workers[t].history = "live" THEN lists["history"] ELSE workers[t].old

\* From the start of the thread to the end of _handle_response.
Processing(t) ==
    workers[t].pc \in {"started", "route", "execute", "synthesis", "pending"}

\* The next call of the run starts: query(q, use_history) if force is "",
\* else execute_with_agent(force, q, history).
Starts(q, force, use_history) ==
    \E t \in ThreadIds :
        /\ workers[t].pc = "idle"
        /\ \A u \in ThreadIds : u < t => workers[u].pc # "idle"
        /\ workers' = [workers EXCEPT ![t] =
               [NoWorker EXCEPT !.pc = "started", !.force = force, !.query = q,
                                !.use_history = use_history,
                                !.fresh = \A i \in DOMAIN lists["history"] :
                                              lists["history"][i].content # q,
                                !.overlap = \E u \in ThreadIds : Processing(u)]]

\* send_query: the button is disabled, the thread is started.
send_query(q, force) ==
    /\ tk.roots >= 1
    /\ Starts(q, force, TRUE)
    /\ widgets' = [send_button |-> "disabled", status |-> "Processing..."]
    /\ UNCHANGED <<agents, pc, op, agent_name, router_raw, execLocals, result, exc, logs,
                   lists, listings, tk, creators, route_calls>>

\* The user clicks Send: a disabled button does not call its command.
SendButton(q, force) ==
    /\ widgets.send_button = "normal"
    /\ send_query(q, force)

\* The user presses Ctrl+Enter in the input field: the binding calls send_query.
ControlReturn(q, force) == send_query(q, force)

\* process() starts: with a forced agent execute_with_agent is called with
\* the history; else query appends the user's turn (use_history) and calls
\* process_query with the history, or with a new empty list.
Process(t) ==
    /\ workers[t].pc = "started"
    /\ IF workers[t].force # ""
       THEN /\ workers' = [workers EXCEPT ![t].pc = "execute",
                                          ![t].agent = workers[t].force,
                                          ![t].history = "live",
                                          ![t].len0 = Len(lists["history"])]
            /\ lists' = lists
       ELSE IF workers[t].use_history
       THEN /\ workers' = [workers EXCEPT ![t].pc = "route", ![t].history = "live",
                                          ![t].len0 = Len(lists["history"])]
            /\ lists' = [lists EXCEPT !["history"] =
                            Append(@, UserMessage(workers[t].query, @))]
       ELSE /\ workers' = [workers EXCEPT ![t].pc = "route", ![t].history = "old",
                                          ![t].old = <<>>]
            /\ lists' = lists
    /\ UNCHANGED <<agents, pc, op, agent_name, router_raw, execLocals, result, exc, logs,
                   listings, widgets, tk, creators, route_calls>>

\* route in the thread: the routing model answers raw, or fails (ok false).
WorkerRoute(t, raw, ok) ==
    /\ workers[t].pc = "route"
    /\ LET call == RouteCall(workers[t].query, IF ok THEN raw ELSE <<>>, ok, HistoryOf(t))
       IN  /\ workers' = [workers EXCEPT ![t].pc = "execute", ![t].agent = call.decision]
           /\ route_calls' = IF Len(route_calls) < 2 THEN Append(route_calls, call)
                             ELSE <<route_calls[2], call>>
    /\ UNCHANGED <<agents, pc, op, agent_name, router_raw, execLocals, result, exc, logs,
                   lists, listings, widgets, tk, creators>>

\* The manager call of a thread has returned res: process() hands the
\* result to the window's event loop.
Returned(w, res) == [w EXCEPT !.pc = "pending", !.result = res]

\* The manager call of a thread has raised e. query catches it and returns
\* the error result; with a forced agent nothing catches it and the thread
\* ends without a call of window.after.
Raised(w, e, names) ==
    IF w.force = "" /\ QueryCatches(e)
    THEN [w EXCEPT !.pc = "pending", !.exc = e, !.invoked = names,
                   !.result = ErrorResult(e)]
    ELSE [w EXCEPT !.pc = "died", !.exc = e, !.invoked = names]

\* query appends the answer of a manager call that returned; with a forced
\* agent nothing is appended.
Answered(history, w) ==
    IF w.force = "" /\ w.use_history /\ w.pc = "pending" /\ w.exc = NoExc
    THEN Append(history, AssistantMessage(w.result, history))
    ELSE history

\* execute_with_agent in the thread, up to the end of the loop over the tool
\* calls: the primary invocation answers text or fails (ok false).
Executed(w, history, text, ok, success) ==
    LET a == w.agent
    IN  IF AgentMissing(a, DOMAIN agents)
        THEN Returned(w, AgentNotFound(a))
        ELSE IF a \notin DOMAIN agents
        THEN Raised(w, Exc("KeyError", "execute_with_agent"), <<>>)
        ELSE LET sent == [w EXCEPT !.input = PrimaryMessages(agents[a], history, w.query)]
                 extracted == extract_tool_calls(text)
                 loop == ToolLoop(extracted.calls, agents[a].tool_names, success, NoLoop)
             IN  IF ~ok
                 THEN Raised(sent, Exc("ResponseError", "primary"), <<>>)
                 ELSE IF extracted.exc # NoExc
                 THEN Raised(sent, extracted.exc, <<>>)
                 ELSE IF extracted.calls = <<>>
                 THEN Returned(sent, [response |-> text, agent_used |-> a,
                                      tools_used |-> <<>>])
                 ELSE IF loop.exc # NoExc
                 THEN Raised(sent, loop.exc, loop.invoked)
                 ELSE [sent EXCEPT !.pc = "synthesis", !.used = loop.used,
                                   !.invoked = loop.invoked]

WorkerExecute(t, text, ok, success) ==
    /\ workers[t].pc = "execute"
    /\ LET w == Executed(workers[t], HistoryOf(t), text, ok, success)
       IN  /\ workers' = [workers EXCEPT ![t] = w]
           /\ lists' = [lists EXCEPT !["history"] = Answered(@, w)]
    /\ UNCHANGED <<agents, pc, op, agent_name, router_raw, execLocals, result, exc, logs,
                   listings, widgets, tk, creators, route_calls>>

\* The synthesis invocation in the thread answers, or fails (ok false).
WorkerSynthesis(t, ok) ==
    /\ workers[t].pc = "synthesis"
    /\ LET w == IF ok
                THEN Returned(workers[t],
                              [response |-> SynthesisText, agent_used |-> workers[t].agent,
                               tools_used |-> workers[t].used])
                ELSE Raised(workers[t], Exc("ResponseError", "synthesis"),
                            workers[t].invoked)
       IN  /\ workers' = [workers EXCEPT ![t] = w]
           /\ lists' = [lists EXCEPT !["history"] = Answered(@, w)]
    /\ UNCHANGED <<agents, pc, op, agent_name, router_raw, execLocals, result, exc, logs,
                   listings, widgets, tk, creators, route_calls>>

\* _handle_response, run by the window's event loop.
HandleResponse(t) ==
    /\ workers[t].pc = "pending"
    /\ workers' = [workers EXCEPT ![t] = [NoWorker EXCEPT !.pc = "handled"]]
    /\ widgets' = [send_button |-> "normal", status |-> "Ready"]
    /\ UNCHANGED <<agents, pc, op, agent_name, router_raw, execLocals, result, exc, logs,
                   lists, listings, tk, creators, route_calls>>

\* MultiAgentAssistant.clear_history: conversation_history is a new, empty
\* list; a manager call under way keeps the list it was handed.
clear_history ==
    /\ lists' = [lists EXCEPT !["history"] = <<>>]
    /\ workers' = [t \in ThreadIds |->
                      IF workers[t].history = "live" /\ Processing(t)
                      THEN [workers[t] EXCEPT !.history = "old", !.old = lists["history"]]
                      ELSE workers[t]]

\* The Clear History button of the window (the user confirms).
ClearHistory ==
    /\ tk.roots >= 1
    /\ clear_history
    /\ widgets' = [widgets EXCEPT !.status = "History cleared"]
    /\ UNCHANGED <<agents, pc, op, agent_name, router_raw, execLocals, result, exc, logs,
                   listings, tk, creators, route_calls>>

NextApp ==
    \/ \E q \in QueryTexts, force \in ForceChoices : SendButton(q, force)
    \/ \E q \in QueryTexts, force \in ForceChoices : ControlReturn(q, force)
    \/ \E t \in ThreadIds : Process(t)
    \/ \E t \in ThreadIds, raw \in AppRouterAnswers, ok \in BOOLEAN : WorkerRoute(t, raw, ok)
    \/ \E t \in ThreadIds, text \in AppTexts, ok \in BOOLEAN, success \in BOOLEAN :
          WorkerExecute(t, text, ok, success)
    \/ \E t \in ThreadIds, ok \in BOOLEAN : WorkerSynthesis(t, ok)
    \/ \E t \in ThreadIds : HandleResponse(t)
    \/ ClearHistory

\* The window was built once and the history file does not exist.
InitApp == InitManager(AppAgentSets, {0}) /\ WindowBuilt

SpecApp == InitApp /\ [][NextApp]_vars

\* The steps of one processing thread.
WorkerStep(t) ==
    \/ Process(t)
    \/ \E raw \in AppRouterAnswers, ok \in BOOLEAN : WorkerRoute(t, raw, ok)
    \/ \E text \in AppTexts, ok \in BOOLEAN, success \in BOOLEAN :
          WorkerExecute(t, text, ok, success)
    \/ \E ok \in BOOLEAN : WorkerSynthesis(t, ok)

\* A started thread is scheduled, a model invocation returns or raises, and
\* the event loop runs the callbacks window.after has queued.
Fairness ==
    \A t \in ThreadIds : WF_vars(WorkerStep(t)) /\ WF_vars(HandleResponse(t))

SpecAppFair == InitApp /\ [][NextApp]_vars /\ Fairness

(***************************************************************************)
(* The tray: TrayApp.toggle_window, called by the hotkey's thread and by   *)
(* the tray menu's thread, and the threads it starts on create_window.     *)
(***************************************************************************)
\* toggle_window: without a window a thread is started on create_window,
\* else the window is shown or hidden.
ToggleWindow ==
    /\ IF ~tk.window
       THEN /\ \E c \in CreatorIds :
                  /\ creators[c] = "idle"
                  /\ \A d \in CreatorIds : d < c => creators[d] # "idle"
                  /\ creators' = [creators EXCEPT ![c] = "started"]
            /\ tk' = tk
       ELSE /\ tk' = [tk EXCEPT !.is_visible = ~tk.is_visible]
            /\ creators' = creators
    /\ UNCHANGED <<agents, pc, op, agent_name, router_raw, execLocals, result, exc, logs,
                   lists, listings, workers, widgets, route_calls>>

\* create_window tests self.window: with a window it shows it and returns.
CreateWindowTest(c) ==
    /\ creators[c] = "started"
    /\ IF tk.window
       THEN /\ creators' = [creators EXCEPT ![c] = "returned"]
            /\ tk' = [tk EXCEPT !.is_visible = TRUE]
       ELSE /\ creators' = [creators EXCEPT ![c] = "constructing"]
            /\ tk' = tk
    /\ UNCHANGED <<agents, pc, op, agent_name, router_raw, execLocals, result, exc, logs,
                   lists, listings, workers, widgets, route_calls>>

\* self.window = tk.Tk(): the root is constructed and assigned.
CreateWindowRoot(c) ==
    /\ creators[c] = "constructing"
    /\ creators' = [creators EXCEPT ![c] = "widgets"]
    /\ tk' = [tk EXCEPT !.window = TRUE, !.roots = @ + 1]
    /\ UNCHANGED <<agents, pc, op, agent_name, router_raw, execLocals, result, exc, logs,
                   lists, listings, workers, widgets, route_calls>>

\* _create_widgets, is_visible = True, and the thread enters mainloop.
CreateWindowWidgets(c) ==
    /\ creators[c] = "widgets"
    /\ creators' = [creators EXCEPT ![c] = "mainloop"]
    /\ tk' = [tk EXCEPT !.is_visible = TRUE]
    /\ widgets' = [send_button |-> "normal", status |-> "Ready"]
    /\ UNCHANGED <<agents, pc, op, agent_name, router_raw, execLocals, result, exc, logs,
                   lists, listings, workers, route_calls>>

\* The user closes the window: WM_DELETE_WINDOW is bound to hide.
Hide ==
    /\ tk.window
    /\ tk.is_visible
    /\ tk' = [tk EXCEPT !.is_visible = FALSE]
    /\ UNCHANGED <<agents, pc, op, agent_name, router_raw, execLocals, result, exc, logs,
                   lists, listings, workers, widgets, creators, route_calls>>

NextTray ==
    \/ ToggleWindow
    \/ \E c \in CreatorIds : CreateWindowTest(c)
    \/ \E c \in CreatorIds : CreateWindowRoot(c)
    \/ \E c \in CreatorIds : CreateWindowWidgets(c)
    \/ Hide

\* The tray application after construction: no window yet.
InitTray == InitWith({AgentUniverse}, {0})

SpecTray == InitTray /\ [][NextTray]_vars

(***************************************************************************)
(* The assistant under a sequential caller: MultiAgentAssistant.query and  *)
(* clear_history, one call after the other, without a window.              *)
(***************************************************************************)
\* The prompts of the caller.
OtherQuery == "What is in a.txt?"

Prompts == {Query, OtherQuery}

\* query(q, use_history) is called; no other call is under way.
CallQuery(q, use_history) ==
    /\ \A u \in ThreadIds : ~Processing(u)
    /\ Starts(q, "", use_history)
    /\ UNCHANGED <<agents, pc, op, agent_name, router_raw, execLocals, result, exc, logs,
                   lists, listings, widgets, tk, creators, route_calls>>

\* query returns its result to the caller.
QueryReturns(t) ==
    /\ workers[t].pc = "pending"
    /\ workers' = [workers EXCEPT ![t] = [NoWorker EXCEPT !.pc = "handled"]]
    /\ UNCHANGED <<agents, pc, op, agent_name, router_raw, execLocals, result, exc, logs,
                   lists, listings, widgets, tk, creators, route_calls>>

\* clear_history is called between two calls of query.
CallClearHistory ==
    /\ \A u \in ThreadIds : ~Processing(u)
    /\ clear_history
    /\ UNCHANGED <<agents, pc, op, agent_name, router_raw, execLocals, result, exc, logs,
                   listings, widgets, tk, creators, route_calls>>

NextAssistant ==
    \/ \E q \in Prompts, use_history \in BOOLEAN : CallQuery(q, use_history)
    \/ \E t \in ThreadIds : Process(t)
    \/ \E t \in ThreadIds, raw \in AppRouterAnswers, ok \in BOOLEAN : WorkerRoute(t, raw, ok)
    \/ \E t \in ThreadIds, text \in AppTexts, ok \in BOOLEAN, success \in BOOLEAN :
          WorkerExecute(t, text, ok, success)
    \/ \E t \in ThreadIds, ok \in BOOLEAN : WorkerSynthesis(t, ok)
    \/ \E t \in ThreadIds : QueryReturns(t)
    \/ CallClearHistory

\* The assistant after construction.
InitAssistant == InitWith(AppAgentSets, {0})

SpecAssistant == InitAssistant /\ [][NextAssistant]_vars

(***************************************************************************)
(* Vocabulary of the properties.                                           *)
(***************************************************************************)
Issued(kind) == \E k \in DOMAIN model_calls : model_calls[k].kind = kind

\* Agent.execute has run (the agent was found) and has ended.
ExecuteEnded == pc \in {"done", "raised"} /\ Issued("primary")

ExecuteCompleted == pc = "done" /\ Issued("primary")

\* The allow-list of the agent that runs.
AllowList == IF agent_name \in DOMAIN agents THEN Range(agents[agent_name].tool_names) ELSE {}

NamesTool(call) == call.type = "object" /\ call.tool_type = "string"

InAllowList(call) == NamesTool(call) /\ call.tool \in AllowList

NamesRegisteredTool(call) == NamesTool(call) /\ call.tool \in RegistryTools

(***************************************************************************)
(* The blocks of a response, read off the text independently of the        *)
(* extraction.                                                             *)
(***************************************************************************)
\* The JSON texts of a response made of fenced tool blocks only.
RECURSIVE BlocksOf(_)
BlocksOf(text) ==
    IF Len(text) < 6 THEN <<>>
    ELSE <<text[4]>> \o BlocksOf(SubSeq(text, 7, Len(text)))

IsBlockSequence(text) ==
    /\ Len(text) % 6 = 0
    /\ \A b \in Range(BlocksOf(text)) : b \in BlockContents
    /\ text = Flatten([i \in DOMAIN BlocksOf(text) |-> Block(BlocksOf(text)[i])])

IsObjectWithTool(a) ==
    JsonValueOf(a).ok /\ JsonValueOf(a).value.type = "object" /\ "tool" \in JsonValueOf(a).value.keys

ObjectsWithTool(text) ==
    LET objs == SelectSeq(BlocksOf(text), IsObjectWithTool)
    IN  [i \in DOMAIN objs |-> JsonValueOf(objs[i]).value]

ParsesAsJson(a) == JsonValueOf(a).ok

\* The values of the blocks that hold JSON, in textual order.
ParsedBlocks(text) ==
    LET good == SelectSeq(BlocksOf(text), ParsesAsJson)
    IN  [i \in DOMAIN good |-> JsonValueOf(good[i]).value]

\* s is t with some elements left out.
RECURSIVE IsSubsequence(_, _)
IsSubsequence(s, t) ==
    IF s = <<>> THEN TRUE
    ELSE IF t = <<>> THEN FALSE
    ELSE IF Head(s) = Head(t) THEN IsSubsequence(Tail(s), Tail(t))
    ELSE IsSubsequence(s, Tail(t))

(***************************************************************************)
(* C1: capability gating.  No tool callable is ever invoked for a call     *)
(* whose tool name is outside the agent's allow-list, and the tool results *)
(* handed to the synthesis pass hold, at the position of every such call,  *)
(* a result with success = FALSE.                                          *)
(***************************************************************************)
C1_CapabilityGating ==
    /\ \A k \in DOMAIN invoked :
           /\ invoked[k].tool \in AllowList
           /\ InAllowList(tool_calls[invoked[k].i])
    /\ Issued("synthesis") =>
           \A i \in DOMAIN tool_calls :
               ~InAllowList(tool_calls[i]) =>
                   i \in DOMAIN synth_results /\ ~synth_results[i].success

\* A registered tool outside the allow-list was asked for, refused, and the
\* refusal reached the synthesis pass.
C1_Witness ==
    /\ pc = "done"
    /\ Issued("synthesis")
    /\ invoked = <<>>
    /\ \E i \in DOMAIN tool_calls :
           /\ NamesRegisteredTool(tool_calls[i])
           /\ ~InAllowList(tool_calls[i])
           /\ synth_results[i] = NotAvailable(tool_calls[i])

(***************************************************************************)
(* C2: the name route returns, the fallback included, is a key of the      *)
(* agent set, so process_query never ends in the agent-not-found result.   *)
(***************************************************************************)
C2_RouteReturnsConfiguredAgent ==
    op = "process_query" =>
        /\ pc = "lookup" => agent_name \in DOMAIN agents
        /\ pc = "done" => result.agent_used # "error"

(***************************************************************************)
(* C3: two-pass protocol.  When Agent.execute has ended, the synthesis     *)
(* invocation was issued if and only if at least one tool call was         *)
(* extracted; a result returned after it is the synthesis text, and a      *)
(* result returned without it is the primary text with no tools used.      *)
(***************************************************************************)
C3_TwoPassProtocol ==
    ExecuteEnded =>
        /\ Issued("synthesis") <=> tool_calls # <<>>
        /\ (pc = "done" /\ Issued("synthesis")) => result.response = SynthesisText
        /\ (pc = "done" /\ ~Issued("synthesis")) =>
               result.response = assistant_message /\ result.tools_used = <<>>

(***************************************************************************)
(* C4: the extracted calls are handled in textual order and one at a time: *)
(* the log of _execute_tool reads call 1, return 1, call 2, return 2, ...  *)
(* over the calls in their order of extraction, a tool callable runs only  *)
(* between the call and the return of its own iteration, and the calls     *)
(* extracted from a sequence of blocks keep the order of the blocks.       *)
(***************************************************************************)
C4_SequentialInOrder ==
    /\ \A k \in DOMAIN events :
           /\ events[k].i = (k + 1) \div 2
           /\ events[k].kind = (IF k % 2 = 1 THEN "call" ELSE "return")
           /\ events[k].i \in DOMAIN tool_calls
    /\ \A k \in DOMAIN invoked :
           /\ invoked[k].tool = tool_calls[invoked[k].i].tool
           /\ \A j \in DOMAIN invoked : j < k => invoked[j].i < invoked[k].i
    /\ pc = "tool_running" =>
           /\ Len(events) % 2 = 1
           /\ invoked[Len(invoked)].i = events[Len(events)].i
    /\ Len(tool_results) = Len(events) \div 2
    /\ IsBlockSequence(assistant_message) =>
           IsSubsequence(tool_calls, ParsedBlocks(assistant_message))

\* The second of two calls runs after the first has returned.
C4_Witness ==
    /\ pc = "tool_running"
    /\ Len(tool_calls) = 2
    /\ events = <<[kind |-> "call", i |-> 1], [kind |-> "return", i |-> 1],
                  [kind |-> "call", i |-> 2]>>
    /\ IsBlockSequence(assistant_message)
    /\ tool_calls[1] # tool_calls[2]

(***************************************************************************)
(* C5: the result of a completed Agent.execute names in tools_used the     *)
(* tool of every extracted call, once per call and in extraction order,    *)
(* whatever the call's outcome; as many names as calls and as tool results *)
(* given to the synthesis pass.                                            *)
(***************************************************************************)
C5_ToolsUsedComplete ==
    ExecuteCompleted =>
        /\ Len(result.tools_used) = Len(tool_calls)
        /\ \A i \in DOMAIN tool_calls : result.tools_used[i] = tool_calls[i].tool
        /\ Len(synth_results) = Len(tool_calls)

\* Two calls of the same tool, one refused or failed and one not.
C5_Witness ==
    /\ ExecuteCompleted
    /\ result.tools_used = <<"write_file", "write_file">>
    /\ tool_results[1].success
    /\ ~tool_results[2].success

(***************************************************************************)
(* C6: execute_with_agent with a name that is no key of the agent set      *)
(* returns the error result, raises nothing, and issues no model and no    *)
(* tool invocation.                                                        *)
(***************************************************************************)
C6_UnknownAgentErrorResult ==
    (op = "execute_with_agent" /\ agent_name \notin DOMAIN agents) =>
        /\ pc \in {"lookup", "done"}
        /\ exc = NoExc
        /\ model_calls = <<>>
        /\ invoked = <<>>
        /\ pc = "done" =>
               result = [response |-> <<"Error: Agent '", agent_name, "' not found">>,
                         agent_used |-> "error",
                         tools_used |-> <<>>]

\* A forced agent name outside the agent set has been answered.
C6_Witness ==
    /\ op = "execute_with_agent"
    /\ agent_name \notin DOMAIN agents
    /\ pc = "done"
    /\ result.agent_used = "error"

(***************************************************************************)
(* C7: process_query and execute_with_agent never raise: every failure     *)
(* mode ends in a returned value.                                          *)
(***************************************************************************)
C7_NeverRaises == pc # "raised" /\ exc = NoExc

(***************************************************************************)
(* C8: for a primary response that is a sequence of fenced tool blocks,    *)
(* the extracted calls are exactly the blocks holding a JSON object with a *)
(* "tool" key, in textual order; the other blocks yield no call and no     *)
(* error, and do not keep the rest from being extracted.                   *)
(***************************************************************************)
C8_ExtractionExact ==
    (Issued("primary") /\ exc.at # "primary" /\ IsBlockSequence(assistant_message)) =>
        /\ exc.at # "_extract_tool_calls"
        /\ tool_calls = ObjectsWithTool(assistant_message)

(***************************************************************************)
(* C9: extraction never raises, whatever JSON value a block holds, and     *)
(* Agent.execute is not aborted by such a block.                           *)
(***************************************************************************)
C9_ExtractionNeverRaises ==
    /\ exc.at # "_extract_tool_calls"
    /\ ~(exc.at = "_execute_tool" /\ exc.type = "AttributeError")

\* An extracted call that _execute_tool is to refuse.
Refusable(call) ==
    call.type = "object" /\ (~NamesRegisteredTool(call) \/ ~InAllowList(call))

(***************************************************************************)
(* C10: a call whose tool value names no registered tool, or a tool        *)
(* outside the allow-list, never aborts the turn: _execute_tool returns a  *)
(* failed result for it, and once execute has ended every call has its     *)
(* result and the synthesis pass was issued.                               *)
(***************************************************************************)
C10_UnknownToolNeverAborts ==
    \A i \in DOMAIN tool_calls :
        Refusable(tool_calls[i]) =>
            /\ ~(pc = "raised" /\ idx = i /\ exc.at \in {"_execute_tool", "has_tool"})
            /\ (ExecuteEnded /\ \A j \in DOMAIN tool_calls : tool_calls[j].type = "object") =>
                   /\ Len(tool_results) = Len(tool_calls)
                   /\ ~tool_results[i].success
                   /\ Issued("synthesis")

\* An extracted call to a registered, allow-listed tool whose invocation
\* raises: the params do not bind to the tool's signature.
RaisesInTool(call) ==
    NamesRegisteredTool(call) /\ InAllowList(call) /\ ~ParamsFit(call)

\* _execute_tool has been called for the i-th extracted call.
Called(i) == [kind |-> "call", i |-> i] \in Range(events)

(***************************************************************************)
(* C11: an exception raised by the invocation of a permitted tool is       *)
(* caught for that call and becomes a result with success = FALSE at the   *)
(* call's position; once execute has ended, every extracted call has its   *)
(* result and the synthesis invocation was issued.                         *)
(***************************************************************************)
C11_ToolExceptionPerCall ==
    \A i \in DOMAIN tool_calls :
        (RaisesInTool(tool_calls[i]) /\ Called(i)) =>
            /\ i \in DOMAIN tool_results
            /\ tool_results[i] = ToolResult(FALSE, "TypeError")
            /\ ExecuteEnded =>
                   /\ Len(tool_results) = Len(tool_calls)
                   /\ Issued("synthesis")

(***************************************************************************)
(* Vocabulary of the routing properties.                                   *)
(***************************************************************************)
\* The routing model has answered and route has returned its decision.
RouteAnswered ==
    /\ op = "process_query"
    /\ pc = "lookup"
    /\ model_calls = <<ModelCall("route", Router, TRUE)>>

QuoteOrPeriod(c) == c \in {"\"", "'", "."}

NotQuoteOrPeriod(c) == ~QuoteOrPeriod(c)

\* The quote and period characters around a text removed, those inside kept.
RECURSIVE StripSurrounding(_)
StripSurrounding(s) ==
    IF s = <<>> THEN s
    ELSE IF QuoteOrPeriod(Head(s)) THEN StripSurrounding(Tail(s))
    ELSE IF QuoteOrPeriod(s[Len(s)]) THEN StripSurrounding(SubSeq(s, 1, Len(s) - 1))
    ELSE s

LowerText(s) == Join([i \in DOMAIN s |-> Lower(s[i])])

\* The answer without its surrounding whitespace, lower-cased, with only the
\* surrounding quote and period characters removed.
SurroundingStripped(raw) == LowerText(StripSurrounding(Strip(raw)))

\* The answer without its surrounding whitespace, lower-cased, with every
\* quote and period character removed.
AllStripped(raw) == LowerText(SelectSeq(Strip(raw), NotQuoteOrPeriod))

(***************************************************************************)
(* C12 (as stated): route returns a name other than the fallback only when *)
(* the answer, lower-cased and with only its surrounding quote and period  *)
(* characters stripped, is that name; every answer that is then no known   *)
(* name resolves to the fallback.                                          *)
(***************************************************************************)
C12_RouterAcceptanceExact ==
    RouteAnswered =>
        /\ agent_name # FallbackAgent => agent_name = SurroundingStripped(router_raw)
        /\ SurroundingStripped(router_raw) \notin DOMAIN agents => agent_name = FallbackAgent

(***************************************************************************)
(* C12 (amended): route returns a name other than the fallback only when   *)
(* the answer, stripped of surrounding whitespace, lower-cased and with    *)
(* every quote and period character removed, those inside it included, is  *)
(* that name and is a known agent name; every other answer resolves to the *)
(* fallback.                                                               *)
(***************************************************************************)
C12_RouterAcceptanceAmended ==
    RouteAnswered =>
        /\ agent_name # FallbackAgent =>
               agent_name = AllStripped(router_raw) /\ agent_name \in DOMAIN agents
        /\ AllStripped(router_raw) \notin DOMAIN agents => agent_name = FallbackAgent

\* A name with a period inside it was accepted.
C12_Witness ==
    /\ RouteAnswered
    /\ router_raw = <<"cal", ".", "endar">>
    /\ agent_name = "calendar"

\* The ways of writing a name in another letter case.
CaseVariants(name) ==
    CASE name = "calendar"     -> {"calendar", "Calendar", "CALENDAR"}
      [] name = "file_manager" -> {"file_manager", "FILE_MANAGER"}
      [] name = "Research"     -> {"Research", "research"}
      [] OTHER                 -> {name}

\* The answer is the name in some letter case, optionally wrapped in quote
\* and period characters and, around those, in whitespace.
IsWritingOf(raw, name) ==
    LET core == StripSurrounding(Strip(raw))
    IN  Len(core) = 1 /\ core[1] \in CaseVariants(name)

(***************************************************************************)
(* C13 (as stated): for every configured agent name, an answer that is the *)
(* name in any letter case, optionally wrapped in whitespace, quotes or a  *)
(* trailing period, makes route return that name; an answer that is no     *)
(* agent's name makes it return "general".                                 *)
(***************************************************************************)
C13_RouterNormalisation ==
    RouteAnswered =>
        /\ \A n \in DOMAIN agents : IsWritingOf(router_raw, n) => agent_name = n
        /\ (\A n \in DOMAIN agents : ~IsWritingOf(router_raw, n)) => agent_name = "general"

(***************************************************************************)
(* C13 (amended): for every configured agent name that is written in lower *)
(* case, an answer that is the name in any letter case, optionally wrapped *)
(* in quotes or a trailing period and, around those, in whitespace, makes  *)
(* route return that name; an answer that, lower-cased and with its quote  *)
(* and period characters removed, is no agent's name makes it return       *)
(* "general".                                                              *)
(***************************************************************************)
C13_RouterNormalisationAmended ==
    RouteAnswered =>
        /\ \A n \in DOMAIN agents :
               (Lower(n) = n /\ IsWritingOf(router_raw, n)) => agent_name = n
        /\ AllStripped(router_raw) \notin DOMAIN agents => agent_name = "general"

\* The answer Calendar. was resolved to the agent calendar.
C13_Witness ==
    /\ RouteAnswered
    /\ router_raw = <<"Calendar", ".">>
    /\ agent_name = "calendar"
    /\ "general" \in DOMAIN agents

\* The routing invocation of the current process_query raised.
RouteFailed ==
    /\ op = "process_query"
    /\ model_calls # <<>>
    /\ model_calls[1] = ModelCall("route", Router, FALSE)

(***************************************************************************)
(* C14: an error raised by the routing invocation does not leave route:    *)
(* route returns the fallback name, and process_query goes on with the     *)
(* primary invocation of the agent of that name, whose result it returns.  *)
(***************************************************************************)
C14_RoutingErrorFallsBack ==
    RouteFailed =>
        /\ agent_name = FallbackAgent
        /\ pc = "raised" => Issued("primary")
        /\ pc = "done" =>
               /\ Len(model_calls) >= 2
               /\ model_calls[2] = ModelCall("primary", FallbackAgent, TRUE)
               /\ result.agent_used = FallbackAgent

\* The caller's history and the input of the primary invocation.
History == lists["history"]

PrimaryInput == lists["messages"]

(***************************************************************************)
(* C15: history windowing.  For a history of n messages the input of the   *)
(* primary invocation is the system prompt, then the last min(n, 10)       *)
(* messages of the history in their order, each with role and content      *)
(* only, then the query as the last user turn; no older message of the     *)
(* history is in it.                                                       *)
(***************************************************************************)
C15_HistoryWindowing ==
    Issued("primary") =>
        LET n == Len(History)
            k == Min({n, 10})
        IN  /\ Len(PrimaryInput) = k + 2
            /\ PrimaryInput[1] = [role |-> "system",
                                  content |-> build_system_prompt(agents[agent_name])]
            /\ \A j \in 1..k :
                   PrimaryInput[1 + j] = [role |-> History[n - k + j].role,
                                          content |-> History[n - k + j].content]
            /\ PrimaryInput[k + 2] = [role |-> "user", content |-> Query]
            /\ \A j \in 1..(n - k) : \A i \in DOMAIN PrimaryInput :
                   PrimaryInput[i].content # History[j].content

\* With 15 prior messages the input holds 12: the five oldest are left out.
C15_Witness ==
    /\ Issued("primary")
    /\ Len(History) = 15
    /\ Len(PrimaryInput) = 12
    /\ PrimaryInput[2].content = History[6].content
    /\ PrimaryInput[11].content = History[15].content

(***************************************************************************)
(* C16: no step of process_query, execute_with_agent, route or execute,    *)
(* whether the call returns or raises, changes the caller's history: it    *)
(* keeps its length and its messages.                                      *)
(***************************************************************************)
C16_HistoryNeverMutated == [][lists'["history"] = lists["history"]]_vars

\* A call with tools and a synthesis pass has ended for a caller whose
\* history is longer than the window, and the history is what it passed.
C16_Witness ==
    /\ op = "process_query"
    /\ pc = "done"
    /\ Issued("synthesis")
    /\ History = Hist(MaxHistory)
    /\ Len(lists["synthesis_messages"]) = Len(PrimaryInput) + 2

(***************************************************************************)
(* C17: execute_with_agent with a known agent name and an empty history    *)
(* issues no routing invocation; every model invocation is one of the      *)
(* agent of that name, and the result names that agent in agent_used.      *)
(***************************************************************************)
C17_ForcedAgentBypassesRouter ==
    (op = "execute_with_agent" /\ agent_name \in DOMAIN agents /\ History = <<>>) =>
        /\ ~Issued("route")
        /\ \A k \in DOMAIN model_calls : model_calls[k].agent = agent_name
        /\ pc \in {"lookup", "primary", "tools", "tool_running", "done", "raised"}
        /\ pc = "done" => result.agent_used = agent_name

\* A forced agent other than the fallback has answered after using a tool.
C17_Witness ==
    /\ op = "execute_with_agent"
    /\ agent_name = "file_manager"
    /\ History = <<>>
    /\ pc = "done"
    /\ Len(model_calls) = 2
    /\ result.agent_used = "file_manager"

\* The order of the model invocations of one process_query.
InvocationOrder == <<"route", "primary", "synthesis">>

(***************************************************************************)
(* C18: within one process_query the model invocations are, in this order  *)
(* and each at most once, the routing invocation, the primary invocation   *)
(* of the chosen agent and the synthesis invocation; the synthesis         *)
(* invocation is issued only when every extracted call has returned; and a *)
(* process_query that has ended has issued two or three invocations.       *)
(***************************************************************************)
C18_InvocationsInSequence ==
    op = "process_query" =>
        /\ Len(model_calls) <= 3
        /\ \A k \in DOMAIN model_calls :
               /\ model_calls[k].kind = InvocationOrder[k]
               /\ model_calls[k].agent = (IF k = 1 THEN Router ELSE agent_name)
        /\ Issued("synthesis") =>
               /\ Len(tool_results) = Len(tool_calls)
               /\ Len(events) = 2 * Len(tool_calls)
        /\ pc \in {"done", "raised"} => Len(model_calls) \in {2, 3}

\* The invocations of a tool callable made for the i-th extracted call.
InvocationsOf(i) == {k \in DOMAIN invoked : invoked[k].i = i}

\* The model invocations of one kind issued in the current call.
ModelCallsOf(kind) == {k \in DOMAIN model_calls : model_calls[k].kind = kind}

(***************************************************************************)
(* C19: no retry.  The callable of a registered, allow-listed tool is      *)
(* invoked at most once per extracted call, exactly once when the call's   *)
(* iteration has ended and its params bind, and with the tool and params   *)
(* of its block; a call has at most one result whether it failed or not;   *)
(* and no model invocation, failed or not, is issued twice in one call.    *)
(***************************************************************************)
C19_NoRetry ==
    /\ \A i \in DOMAIN tool_calls : Cardinality(InvocationsOf(i)) <= 1
    /\ \A k \in DOMAIN invoked :
           /\ invoked[k].i \in DOMAIN tool_calls
           /\ invoked[k].tool = tool_calls[invoked[k].i].tool
           /\ invoked[k].params = tool_calls[invoked[k].i].params
    /\ Len(tool_results) <= Len(tool_calls)
    /\ Len(events) <= 2 * Len(tool_calls)
    /\ \A i \in DOMAIN tool_results :
           (NamesRegisteredTool(tool_calls[i]) /\ InAllowList(tool_calls[i])
                /\ ParamsFit(tool_calls[i])) =>
               Cardinality(InvocationsOf(i)) = 1
    /\ \A kind \in Range(InvocationOrder) : Cardinality(ModelCallsOf(kind)) <= 1

\* The first of two write_file calls failed in the tool, was not made again,
\* and the call ended after a failed synthesis invocation.
C19_Witness ==
    /\ pc = "raised"
    /\ exc.at = "synthesis"
    /\ Len(tool_calls) = 2
    /\ ~tool_results[1].success
    /\ invoked = <<[i |-> 1, tool |-> "write_file", params |-> {"file_path", "content"}],
                   [i |-> 2, tool |-> "write_file", params |-> {"file_path", "content"}]>>
    /\ Cardinality(ModelCallsOf("synthesis")) = 1

\* What a listing says of one agent.
ListedAs(agent) ==
    [description |-> agent.description, model |-> agent.model, tools |-> agent.tool_names]

\* Every mapping get_agent_list returned has the configured agent names as
\* its keys and each agent's description, model and tools as its values,
\* and two consecutive ones are equal.
ListingsAgree ==
    /\ \A k \in DOMAIN listings :
           /\ DOMAIN listings[k] = DOMAIN agents
           /\ \A n \in DOMAIN agents : listings[k][n] = ListedAs(agents[n])
    /\ Len(listings) = 2 => listings[1] = listings[2]

\* A step that returns a listing changes nothing else.
ListingIsPure ==
    listings' # listings =>
        UNCHANGED <<agents, pc, op, agent_name, router_raw, assistant_message, tool_calls,
                    idx, tool_results, tools_used, result, exc, model_calls, invoked,
                    events, synth_results, lists>>

(***************************************************************************)
(* C20: get_agent_list is pure introspection.  A step that returns a       *)
(* listing changes no state of the manager, its agents or the router and   *)
(* issues no model or tool invocation; every listing has exactly the       *)
(* configured agent names as keys; and two consecutive listings are equal, *)
(* whatever calls of the manager happen between them.                      *)
(***************************************************************************)
C20_AgentListPure == [](ListingsAgree) /\ [][ListingIsPure]_vars

\* Two listings were returned for a configuration of four agents and a
\* process_query with a tool call has ended.
C20_Witness ==
    /\ Len(listings) = 2
    /\ DOMAIN listings[2] = AgentUniverse \cup {MixedCaseAgent}
    /\ listings[1] = listings[2]
    /\ pc = "done"
    /\ Issued("synthesis")

\* The input of the synthesis invocation.
SynthesisInput == lists["synthesis_messages"]

\* What the synthesis instruction says of the i-th result.
ResultEntry(i, res) == " Tool " \o ToString(i) \o ": " \o ToString(res)

(***************************************************************************)
(* C21: the input of the synthesis invocation is the input of the primary  *)
(* invocation, unchanged and in the same order, then the primary response  *)
(* as an assistant turn, then one user turn that holds the query and, in   *)
(* the order of extraction, one result per extracted call; the result at   *)
(* the position of a refused call is that call's refusal.                  *)
(***************************************************************************)
C21_SynthesisInput ==
    Issued("synthesis") =>
        LET n == Len(PrimaryInput)
        IN  /\ Len(SynthesisInput) = n + 2
            /\ \A k \in 1..n : SynthesisInput[k] = PrimaryInput[k]
            /\ PrimaryInput = PrimaryMessages(agents[agent_name], History, Query)
            /\ SynthesisInput[n + 1] =
                   [role |-> "assistant", content |-> Join(assistant_message)]
            /\ SynthesisInput[n + 2].role = "user"
            /\ Len(synth_results) = Len(tool_calls)
            /\ SynthesisInput[n + 2].content =
                   "Based on the tool results below, provide a natural language response to the user's request."
                   \o " User request: " \o Query \o " Tool results:"
                   \o Join([i \in DOMAIN tool_calls |-> ResultEntry(i, synth_results[i])])
                   \o " Provide a clear, helpful response based on these results:"
            /\ \A i \in DOMAIN tool_calls :
                   /\ ~NamesRegisteredTool(tool_calls[i]) =>
                          synth_results[i] = NotFound(tool_calls[i])
                   /\ (NamesRegisteredTool(tool_calls[i]) /\ ~InAllowList(tool_calls[i])) =>
                          synth_results[i] = NotAvailable(tool_calls[i])

\* The synthesis pass after two calls, the first failed in the binding of
\* its params and the second refused, for a caller with a long history.
C21_Witness ==
    /\ Issued("synthesis")
    /\ Len(History) = MaxHistory
    /\ Len(tool_calls) = 2
    /\ Len(SynthesisInput) = HistoryWindow + 4
    /\ synth_results[1] = ToolResult(FALSE, "TypeError")
    /\ synth_results[2] = NotFound(tool_calls[2])

(***************************************************************************)
(* Vocabulary of the properties of the assistant and of the window.        *)
(***************************************************************************)
\* The call is one of MultiAgentAssistant.query.
IsQuery(t) == workers[t].pc # "idle" /\ workers[t].force = ""

\* The call has handed its result back and the caller has not taken it yet.
HandedBack(t) == workers[t].pc = "pending"

\* The manager call under query raised.
Failed(t) == workers[t].exc # NoExc

ConversationHistory == lists["history"]

(***************************************************************************)
(* C22: MultiAgentAssistant.query never raises.  A call of query never     *)
(* ends in an exception, and when the routing or the execution under it    *)
(* raised, what query hands back is the result with agent_used "error", no *)
(* tools_used and the error text in response.                              *)
(***************************************************************************)
C22_QueryNeverRaises ==
    \A t \in ThreadIds :
        IsQuery(t) =>
            /\ workers[t].pc # "died"
            /\ (HandedBack(t) /\ Failed(t)) =>
                   /\ workers[t].result.agent_used = "error"
                   /\ workers[t].result.tools_used = <<>>
                   /\ workers[t].result.response = <<"Error: ", workers[t].exc.type>>
                   /\ workers[t].result.error = workers[t].exc.type

\* The synthesis invocation under a query failed and query handed back the
\* error result.
C22_Witness ==
    \E t \in ThreadIds :
        /\ IsQuery(t) /\ HandedBack(t)
        /\ workers[t].exc = Exc("ResponseError", "synthesis")
        /\ workers[t].result.agent_used = "error"

(***************************************************************************)
(* C23: tool use is never hidden.  Whenever a result is handed back for a  *)
(* call during which a tool's callable was invoked, the tools_used of that *)
(* result holds the tool's name, also when the synthesis invocation that   *)
(* followed has failed.                                                    *)
(***************************************************************************)
C23_ToolUseNeverHidden ==
    \A t \in ThreadIds :
        HandedBack(t) =>
            \A k \in DOMAIN workers[t].invoked :
                workers[t].invoked[k] \in Range(workers[t].result.tools_used)

\* The query text occurs in no message of the history when query is called.
FirstUse(t) == workers[t].fresh

\* The positions of the primary input of a call that hold its query.
QueryTurns(t) ==
    {i \in DOMAIN workers[t].input : workers[t].input[i].content = workers[t].query}

(***************************************************************************)
(* C24: the current query appears exactly once in the primary model input, *)
(* as the final user turn.  For a query with use_history on whose text is  *)
(* in no earlier message of the history, the messages sent to the primary  *)
(* invocation hold the text in the last turn and in no other.              *)
(***************************************************************************)
C24_QueryOnceInPrimaryInput ==
    \A t \in ThreadIds :
        (IsQuery(t) /\ workers[t].use_history /\ FirstUse(t) /\ workers[t].input # <<>>) =>
            QueryTurns(t) = {Len(workers[t].input)}

\* No call is under way.
Quiet == \A t \in ThreadIds : ~Processing(t)

\* User and assistant messages alternate, starting with a user message.
Alternates(history) ==
    /\ Len(history) % 2 = 0
    /\ \A i \in DOMAIN history :
          history[i].role = IF i % 2 = 1 THEN "user" ELSE "assistant"

(***************************************************************************)
(* C25: after any sequence of calls of query, one after the other, some of *)
(* which may fail in the backend, and of clear_history, the conversation   *)
(* history alternates user and assistant messages and its length is even.  *)
(***************************************************************************)
C25_HistoryAlternates == Quiet => Alternates(ConversationHistory)

\* The last two calls of route had the same query and the same answer of
\* the routing model (the agent names and descriptions never change).
SameRouteArguments ==
    /\ Len(route_calls) = 2
    /\ route_calls[1].query = route_calls[2].query
    /\ route_calls[1].ok = route_calls[2].ok
    /\ route_calls[1].raw = route_calls[2].raw

(***************************************************************************)
(* C29: route keeps no state between calls and its decision does not       *)
(* depend on the history.  Two calls of route with the same query and the  *)
(* same answer of the routing model return the same agent name and send    *)
(* the same model input, whatever the history passed and whatever calls    *)
(* were made before.                                                       *)
(***************************************************************************)
C29_RouteStateless ==
    SameRouteArguments =>
        /\ route_calls[1].decision = route_calls[2].decision
        /\ route_calls[1].messages = route_calls[2].messages

\* Two calls of route with the same query and answer, the first with a
\* history of one message, the second with a longer one.
C29_Witness ==
    /\ SameRouteArguments
    /\ route_calls[1].ok
    /\ route_calls[1].history = 1
    /\ route_calls[2].history > 1

(***************************************************************************)
(* C26: at most one query is being processed at any time in the window.    *)
(* From the start of a processing thread to the end of _handle_response    *)
(* for it, no user action starts a second processing thread.               *)
(***************************************************************************)
C26_OneQueryAtATime ==
    \A t, u \in ThreadIds : (Processing(t) /\ Processing(u)) => t = u

(***************************************************************************)
(* C27: every send_query that started processing is eventually completed:  *)
(* _handle_response runs for it, which re-enables Send and sets the status *)
(* Ready, with the router or a forced agent, with or without a failing     *)
(* model invocation.                                                       *)
(***************************************************************************)
C27_SendQueryCompletes ==
    \A t \in ThreadIds : (workers[t].pc = "started") ~> (workers[t].pc = "handled")

\* The call ran alone: no other call was under way when it was sent, none
\* was sent after it, and the history was not cleared since it began.
RanAlone(t) ==
    /\ ~workers[t].overlap
    /\ workers[t].history = "live"
    /\ \A u \in ThreadIds : u > t => workers[u].pc = "idle"

(***************************************************************************)
(* C28: the caller records every completed exchange.  When a query sent    *)
(* through the window has been answered, the conversation history has      *)
(* grown by the user's query followed by the assistant's response with its *)
(* agent and tools_used, with a forced agent as in automatic mode.         *)
(***************************************************************************)
C28_ExchangeRecorded ==
    \A t \in ThreadIds :
        (HandedBack(t) /\ RanAlone(t)) =>
            LET h == ConversationHistory
                n == workers[t].len0
            IN  /\ Len(h) = n + 2
                /\ h[n + 1].role = "user"
                /\ h[n + 1].content = workers[t].query
                /\ h[n + 2].role = "assistant"
                /\ h[n + 2].content = Join(workers[t].result.response)
                /\ h[n + 2].agent = workers[t].result.agent_used
                /\ h[n + 2].tools_used = workers[t].result.tools_used

(***************************************************************************)
(* C30: at most one main window is ever created.  For every interleaving   *)
(* of toggle_window calls with the creation threads they start, the Tk     *)
(* root is constructed at most once, and a toggle that arrives while a     *)
(* creation is under way starts no second one.                             *)
(***************************************************************************)
C30_OneWindow ==
    /\ tk.roots <= 1
    /\ \A c, d \in CreatorIds :
          (creators[c] \in {"started", "constructing", "widgets"}
             /\ creators[d] \in {"started", "constructing", "widgets"}) => c = d

====
